---- MODULE Spec2Model ----
(***************************************************************************)
(* Jellyfin-Resonite-API: the authenticated upstream client (both the     *)
(* busy-wait and the promise-based auth middleware), the ensureAuth       *)
(* middleware in front of every route, the playback negotiation of        *)
(* GET /api/stream/:itemId, the sessions of its format=direct proxy in    *)
(* the server's registry with the stale sweep, the headers of that proxy, *)
(* the progress, start and stop reports, the SimpleCache of the helpers   *)
(* and the routes of the items router.                                    *)
(*                                                                        *)
(* Node runs one event loop: an action is one macrotask (an I/O callback, *)
(* a timer callback, an incoming request) run up to its first real I/O.   *)
(* Promise continuations are microtasks: they run before any other        *)
(* macrotask, which the guard Quiet states.                               *)
(***************************************************************************)
EXTENDS Integers, Sequences, FiniteSets, TLC

\* ---------------------------------------------------------------- bounds
\* The clock runs from 1 to MaxTime.
MaxTime == 3
\* Upstream issues access tokens 1..MaxToken.
MaxToken == 1
\* Client requests 1..NumReqs arrive, each once.
NumReqs == 2
\* Proxied streams 1..NumSessions are opened, each once.
NumSessions == 2
\* The clock of the session registry runs from 1 to MaxRegTime.
MaxRegTime == 4
\* A proxied stream receives at most MaxBytes bytes from upstream.
MaxBytes == 1
\* A SimpleCache is made with a maxSize of 1..MaxCacheSize.
MaxCacheSize == 3
\* The clock of the cache runs from 1 to MaxCacheTime.
MaxCacheTime == 3

\* ------------------------------------------------------------- constants
\* null, the initial value of every authData field (falsy in JavaScript).
NULL == 0
\* undefined, what response.data.AccessToken is when the payload lacks it.
UNDEF == -1
\* The credential's max age, in clock units (one unit is an hour).
AUTH_CACHE_DURATION == 1
\* The age beyond which the sweep removes a record: 3600000 ms, one clock unit.
STALE_AGE == 1
\* Upstream's time unit: 1 second = 10,000,000 ticks.
TICKS_PER_SECOND == 10000000
\* The timeout of the proxy's upstream GET, in ms.
PROXY_TIMEOUT == 30000
\* HTTP statuses: a response whose status nobody set, and the answers of the
\* catch blocks.
OK_STATUS == 200
ERROR_STATUS == 500
NOT_FOUND_STATUS == 404
\* ttlMs of the item cache: 300000 ms, taken as one unit of the cache's clock.
CACHE_TTL == 1

VARIABLES
    impl,               \* "busy" or "promise": which auth middleware is loaded
    now,                \* Date.now()
    healed,             \* upstream accepts the credentials from now on
    authData,           \* the Credential State
    isAuthenticating,   \* authData.isAuthenticating (busy-wait middleware)
    authPromise,        \* authPromise (promise-based middleware)
    axiosInstance,      \* the singleton axios instance (promise-based)
    inflight,           \* owners of an outstanding POST /Users/authenticatebyname
    timerInstalled,     \* setInterval was called in initializeAuth
    unhandledRejection, \* a timer callback's promise was rejected, uncaught
    pc,                 \* per process: where it is
    stage,              \* per request: which call to the auth module it is in
    waitOn,             \* per process: the attempt it awaits
    wake,               \* per process: its await was settled (microtask queued)
    callLog,            \* per process: its last authenticate() call
    nextCalls,          \* per request: calls of next() by ensureAuth
    mwResponses,        \* per request: 503 responses sent by ensureAuth
    mwOutcome,          \* per request: what getAuthData did in ensureAuth
    apiCalls,           \* per request: upstream calls other than the auth call
    handlerResp,        \* per request: what the route handler answered
    allRejected,        \* upstream has rejected every attempt so far
    ver,                \* which streams route file is loaded: "current" or "earlier"
    negPc,              \* where the GET /api/stream/:itemId handler is
    query,              \* req.query of that request
    playback,           \* upstream's answer to POST /Items/:id/PlaybackInfo
    result,             \* what the handler negotiated
    reply,              \* what the handler answered
    activeStreams,      \* serverStats.activeStreams: session id -> streamInfo
    streamCount,        \* serverStats.streamCount
    totalBandwidth,     \* serverStats.totalBandwidth
    sess,               \* per proxied stream: its connection and its pipe
    received,           \* per proxied stream: bytes received from upstream
    removals,           \* per proxied stream: deletions of its record
    endedLog,           \* per proxied stream: 'ended' lines logged
    repPc,              \* where the progress / start / stop handler is
    repReq,             \* the report request: endpoint and req.body.position
    repAuth,            \* whether ensureAuth can obtain a credential for it
    repCalls,           \* upstream calls made for the report request
    repReply,           \* what was answered to it
    proxy,              \* one proxied request: its headers, upstream's, the answer's
    itemCache,          \* the SimpleCache of the items router
    routed              \* the last request to the items router and who answered it

authVars == <<impl, now, healed, authData, isAuthenticating, authPromise,
              axiosInstance, inflight, timerInstalled, unhandledRejection>>
procVars == <<pc, stage, waitOn, wake, callLog>>
reqVars == <<nextCalls, mwResponses, mwOutcome, apiCalls, handlerResp>>
histVars == <<allRejected>>
negVars == <<ver, negPc, query, playback, result, reply>>
regVars == <<activeStreams, streamCount, totalBandwidth, sess, received, removals,
             endedLog>>
repVars == <<repPc, repReq, repAuth, repCalls, repReply>>
otherVars == <<proxy, itemCache, routed>>
vars == <<authVars, procVars, reqVars, histVars, negVars, regVars, repVars, otherVars>>

\* ------------------------------------------------------------- processes
StartupProc == <<"startup", 0>>
TimerProc == <<"timer", 0>>
Reqs == {<<"req", i>> : i \in 1..NumReqs}
Procs == {StartupProc, TimerProc} \cup Reqs
NoProc == <<"none", 0>>
\* What a busy-wait joiner waits on: the 100 ms poll of isAuthenticating.
PollProc == <<"poll", 0>>

\* What upstream can answer to POST /Users/authenticatebyname.
\*   ok       2xx with AccessToken, User and ServerId
\*   reject   non-2xx (error.response is set)
\*   neterr   no response (ECONNREFUSED, timeout)
\*   noUser   2xx whose payload lacks the User object
\*   noToken  2xx whose payload lacks AccessToken
Kinds == {"ok", "reject", "neterr", "noUser", "noToken"}
\* The kinds on which authenticate() throws.
FailKinds == {"reject", "neterr", "noUser"}

Falsy(v) == v <= 0

NoCred == [token |-> NULL, userId |-> NULL, serverId |-> NULL, lastAuth |-> NULL]

\* ------------------------------------------------------- the auth module
ShouldReauthenticate ==
    \/ Falsy(authData.token)
    \/ Falsy(authData.lastAuth)
    \/ (now - authData.lastAuth) > AUTH_CACHE_DURATION

\* The Credential State is valid: a token, authenticated within the max age.
CredentialValid ==
    /\ ~Falsy(authData.token)
    /\ ~Falsy(authData.lastAuth)
    /\ (now - authData.lastAuth) <= AUTH_CACHE_DURATION

\* The test authenticate() starts with: is an attempt in progress?
AuthInProgress_NoJoin == FALSE
AuthInProgress ==
    IF impl = "busy" THEN isAuthenticating ELSE authPromise # NoProc

\* The assignments after the awaited axios.post, in order, up to the throw.
ApplyResponse(ad, kind, tok, t) ==
    CASE kind = "ok" ->
           [token |-> tok, userId |-> 1, serverId |-> 1, lastAuth |-> t]
      [] kind = "noToken" ->
           [token |-> UNDEF, userId |-> 1, serverId |-> 1, lastAuth |-> t]
      [] kind = "noUser" -> [ad EXCEPT !.token = tok]
      [] OTHER -> ad

\* authPromise after the attempt of owner o settled: finally { authPromise = null }.
PromiseAfter_KeepRejected(o, kind) == IF kind \in FailKinds THEN o ELSE NoProc
PromiseAfter(o, kind) == NoProc

\* No promise continuation is queued: the event loop takes the next macrotask.
Quiet == \A p \in Procs : wake[p] = "none"

\* A busy-wait joiner whose next poll will find isAuthenticating false.
Wakeable(p) ==
    /\ impl = "busy"
    /\ pc[p] = "wait"
    /\ waitOn[p] = PollProc
    /\ ~isAuthenticating

\* Whether the call of the auth module at stage s goes through authenticate():
\*   mw  ensureAuth's getAuthData()
\*   h1  the route handler's getAuthData()
\*   h2  the route handler's getAuthenticatedAxios()
NeedAuth(s) ==
    \/ ShouldReauthenticate
    \/ (impl = "promise" /\ s = "h2" /\ ~axiosInstance.created)

\* getAuthData's test of authData.token runs at every stage but the promise-based
\* getAuthenticatedAxios, which returns axiosInstance after authenticate().
TokenChecked(s) == ~(impl = "promise" /\ s = "h2")

NextStage(s) ==
    CASE s = "mw" -> "h1"
      [] s = "h1" -> "h2"
      [] OTHER -> "api"

\* The synchronous run of a request from stage s, entered by a fresh call
\* (w = "call") or by the settled await of authenticate() (w = "returned" or
\* "threw"), up to its next real I/O:
\*   end = "block"  it awaits authenticate() at `stage`
\*   end = "error"  the call at `stage` threw
\*   end = "api"    the handler issued its upstream API call
\* passed: the stages whose call returned normally on the way.
RECURSIVE Run(_, _)
Run(s, w) ==
    IF s = "api" THEN [end |-> "api", stage |-> "h2", passed |-> {}]
    ELSE IF w = "threw" THEN [end |-> "error", stage |-> s, passed |-> {}]
    ELSE IF w = "call" /\ NeedAuth(s)
         THEN [end |-> "block", stage |-> s, passed |-> {}]
    ELSE IF TokenChecked(s) /\ Falsy(authData.token)
         THEN [end |-> "error", stage |-> s, passed |-> {}]
    ELSE LET rest == Run(NextStage(s), "call")
         IN  [rest EXCEPT !.passed = @ \cup {s}]

\* ensureAuth, given whether its getAuthData() threw: the calls of next() and
\* the 503 responses it makes.
EnsureAuthOutcome_NextInCatch(threw) ==
    [next |-> 1, resp |-> IF threw THEN 1 ELSE 0]
EnsureAuthOutcome(threw) ==
    [next |-> IF threw THEN 0 ELSE 1, resp |-> IF threw THEN 1 ELSE 0]

\* What a call of authenticate() by p does to the auth module and to p, when p
\* reaches one (blocks); ret is the result of the call of p that just finished.
AuthStep(p, blocks, ret) ==
    LET starts == blocks /\ ~AuthInProgress
        joinTarget == IF impl = "busy" THEN PollProc ELSE authPromise
    IN  /\ inflight' = IF starts THEN inflight \cup {p} ELSE inflight
        /\ authPromise' = IF starts /\ impl = "promise" THEN p ELSE authPromise
        /\ isAuthenticating' =
               IF starts /\ impl = "busy" THEN TRUE ELSE isAuthenticating
        /\ waitOn' = [waitOn EXCEPT ![p] =
               IF starts THEN p ELSE IF blocks THEN joinTarget ELSE NoProc]
        /\ callLog' = [callLog EXCEPT ![p] =
               IF blocks THEN [failed |-> FALSE, ret |-> "none"]
               ELSE IF ret = "none" THEN @ ELSE [@ EXCEPT !.ret = ret]]

\* A request r makes the synchronous run `out`.
RequestStep(r, out, ret) ==
    LET mwDone == "mw" \in out.passed \/ (out.end = "error" /\ out.stage = "mw")
        ea == EnsureAuthOutcome(out.end = "error" /\ out.stage = "mw")
    IN  /\ AuthStep(r, out.end = "block", ret)
        /\ pc' = [pc EXCEPT ![r] =
               CASE out.end = "block" -> "wait"
                 [] out.end = "api" -> "api"
                 [] OTHER -> "done"]
        /\ stage' = [stage EXCEPT ![r] = out.stage]
        /\ nextCalls' = [nextCalls EXCEPT ![r] = IF mwDone THEN @ + ea.next ELSE @]
        /\ mwResponses' = [mwResponses EXCEPT ![r] = IF mwDone THEN @ + ea.resp ELSE @]
        /\ mwOutcome' = [mwOutcome EXCEPT ![r] =
               IF "mw" \in out.passed THEN "returned"
               ELSE IF mwDone THEN "threw" ELSE @]
        /\ apiCalls' = [apiCalls EXCEPT ![r] = IF out.end = "api" THEN @ + 1 ELSE @]
        /\ handlerResp' = [handlerResp EXCEPT ![r] =
               IF out.end = "error" /\ out.stage # "mw" THEN "error" ELSE @]

\* ------------------------------------------------- playback negotiation
\* GET /api/stream/:itemId. Query values are strings; URLSearchParams turns the
\* numeric defaults into strings too.
Qualities == {"auto", "low", "medium", "high", "ultra"}
Formats == {"none", "hls", "direct"}
Clients == {"none", "browser"}

\* The defaults of the destructured req.query.
DefaultOptions ==
    [maxWidth |-> "1920", maxHeight |-> "1080", videoBitrate |-> "5000000",
     audioCodec |-> "aac", videoCodec |-> "h264", container |-> "ts",
     audioChannels |-> "2"]
\* A caller that supplies its own width, height and bitrate.
CallerOptions ==
    [DefaultOptions EXCEPT !.maxWidth = "640", !.maxHeight = "360",
                           !.videoBitrate = "500000"]

Queries ==
    [quality : Qualities, format : Formats, client : Clients,
     options : {DefaultOptions, CallerOptions}]

\* mediaSource.TranscodingInfo: absent, or present with its TranscodeReasons.
TranscodingInfos ==
    {[present |-> FALSE, TranscodeReasons |-> <<>>],
     [present |-> TRUE, TranscodeReasons |-> <<>>],
     [present |-> TRUE, TranscodeReasons |-> <<"VideoCodecNotSupported">>]}

\* playbackInfo.data.MediaSources[0], the descriptor the handler selects.
MediaSources ==
    [SupportsDirectPlay : BOOLEAN, SupportsDirectStream : BOOLEAN,
     Container : {"mp4", "mkv"}, TranscodingInfo : TranscodingInfos]

PlaySessionIds == {"ps1", "ps2"}

NoParams == [k \in {} |-> ""]
NoUrl == [path |-> "none", params |-> NoParams]
NoQuery ==
    [quality |-> "auto", format |-> "none", client |-> "none",
     options |-> DefaultOptions]
NoPlayback ==
    [hasSource |-> FALSE, PlaySessionId |-> "none",
     mediaSource |-> [SupportsDirectPlay |-> FALSE, SupportsDirectStream |-> FALSE,
                      Container |-> "mp4",
                      TranscodingInfo |-> [present |-> FALSE, TranscodeReasons |-> <<>>]]]
NoResult ==
    [method |-> "none", streamUrl |-> NoUrl, hlsUrl |-> NoUrl, directUrl |-> NoUrl,
     directPlay |-> FALSE, transcodeReasons |-> <<>>, playSessionId |-> "none"]
NoReply == [kind |-> "none", status |-> 0, target |-> NoUrl]

\* The branch of the if / else-if / else that decides the streaming method.
Method_StreamFirst(ms, quality) ==
    IF ms.SupportsDirectStream THEN "remux"
    ELSE IF ms.SupportsDirectPlay /\ quality = "auto" THEN "direct"
    ELSE "transcode"
Method(ms, quality) ==
    IF ms.SupportsDirectPlay /\ quality = "auto" THEN "direct"
    ELSE IF ms.SupportsDirectStream THEN "remux"
    ELSE "transcode"

\* The switch (quality) of the transcode branch: the preset of a tier, none for
\* any other value.
QualityPreset(quality) ==
    CASE quality = "low" ->
           [MaxWidth |-> "720", MaxHeight |-> "480", VideoBitrate |-> "1000000"]
      [] quality = "medium" ->
           [MaxWidth |-> "1280", MaxHeight |-> "720", VideoBitrate |-> "2500000"]
      [] quality = "high" ->
           [MaxWidth |-> "1920", MaxHeight |-> "1080", VideoBitrate |-> "8000000"]
      [] OTHER -> NoParams

\* f with the entries of g put over it (an assignment to existing keys).
Override(f, g) ==
    [k \in DOMAIN f |-> IF k \in DOMAIN g THEN g[k] ELSE f[k]]

\* baseParams of the current route file.
BaseParams(auth) ==
    "UserId" :> auth.userId @@ "DeviceId" :> "jellyfin-resonite-api"
        @@ "api_key" :> auth.token

TranscodeParams(q) ==
    Override("VideoCodec" :> q.options.videoCodec
                 @@ "AudioCodec" :> q.options.audioCodec
                 @@ "Container" :> q.options.container
                 @@ "MaxWidth" :> q.options.maxWidth
                 @@ "MaxHeight" :> q.options.maxHeight
                 @@ "VideoBitrate" :> q.options.videoBitrate
                 @@ "AudioChannels" :> q.options.audioChannels,
             QualityPreset(q.quality))

\* mediaSource.TranscodingInfo?.TranscodeReasons || ['Full transcode required']:
\* an empty array is truthy and is kept.
TranscodeReasonsOf(ms) ==
    IF ms.TranscodingInfo.present
    THEN ms.TranscodingInfo.TranscodeReasons
    ELSE <<"Full transcode required">>

\* The query parameters of the direct URL and of the HLS URL, per method.
DirectParams(v, method, q, auth) ==
    CASE method = "direct" ->
           IF v = "current" THEN BaseParams(auth) @@ "Static" :> "true"
           ELSE "static" :> "true" @@ "api_key" :> auth.token
      [] method = "remux" ->
           IF v = "current" THEN BaseParams(auth) @@ "Container" :> q.options.container
           ELSE "Container" :> q.options.container @@ "api_key" :> auth.token
      [] OTHER ->
           IF v = "current" THEN BaseParams(auth) @@ TranscodeParams(q)
           ELSE TranscodeParams(q) @@ "api_key" :> auth.token

HlsParams(v, method, q, auth) ==
    IF v = "earlier" /\ method = "direct"
    THEN "api_key" :> auth.token
    ELSE DirectParams(v, method, q, auth)

\* The method decision and the URLs it builds.
Negotiate(v, q, pb, auth) ==
    LET ms == pb.mediaSource
        method == Method(ms, q.quality)
        directUrl == [path |-> "stream", params |-> DirectParams(v, method, q, auth)]
        hlsUrl == [path |-> "master.m3u8", params |-> HlsParams(v, method, q, auth)]
    IN  [method |-> method,
         streamUrl |-> IF method = "transcode" THEN hlsUrl ELSE directUrl,
         hlsUrl |-> hlsUrl,
         directUrl |-> directUrl,
         directPlay |-> (method = "direct"),
         transcodeReasons |->
             CASE method = "direct" -> <<>>
               [] method = "remux" -> <<"Container remux">>
               [] OTHER -> TranscodeReasonsOf(ms),
         playSessionId |-> pb.PlaySessionId]

\* What the handler answers for a format.
ReplyFor(v, format, res) ==
    CASE format = "hls" ->
           IF v = "current"
           THEN [kind |-> "redirect", status |-> 302, target |-> res.directUrl]
           ELSE [kind |-> "manifest", status |-> 200, target |-> res.hlsUrl]
      [] format = "direct" ->
           IF v = "current"
           THEN [kind |-> "proxy", status |-> 200, target |-> res.directUrl]
           ELSE [kind |-> "redirect", status |-> 302, target |-> res.directUrl]
      [] OTHER -> [kind |-> "json", status |-> 200, target |-> NoUrl]

NegIdle ==
    /\ negPc = "idle"
    /\ query = NoQuery
    /\ playback = NoPlayback
    /\ result = NoResult
    /\ reply = NoReply

\* ------------------------------------------------- the session registry
Sessions == 1..NumSessions

\* Where a proxied stream is.
\*   idle       not requested yet
\*   awaiting   registered; the upstream GET of the direct URL is awaited
\*   failed     the upstream GET failed; 500 was answered
\*   streaming  headers sent, the close listener installed, the body piped
\*   stalled    the upstream body errored mid-stream; pipe() stopped, the
\*              response is left open
\*   finished   the upstream body ended; the response was ended
\*   closed     the caller's connection closed while the body was piped
Phases == {"idle", "awaiting", "failed", "streaming", "stalled", "finished", "closed"}

\* The events after which a stream is over for the caller. A disconnect and a
\* client-side abort are one event to the handler, the request's 'close'.
EndEvents == {"disconnect", "upstreamError", "complete"}

\* Values Math.random().toString(36).substr(2, 9) takes (0.5 gives "0.i").
Suffixes == {"i", "9"}

\* Readings of Date.now(), in milliseconds (now keeps the hours).
Millis == 1..NumSessions

\* `stream-${Date.now()}-${suffix}`: the clock reading and the random suffix.
SessionId(ms, rnd) == <<ms, rnd>>
NoId == <<UNDEF, "">>

\* The state of the upstream body stream of a proxied request.
UpstreamStates == {"none", "pending", "failed", "open", "ended", "errored", "destroyed"}

NoSess == [phase |-> "idle", open |-> TRUE, listening |-> FALSE, over |-> "none",
           id |-> NoId, upstream |-> "none"]

\* streamInfo, the record the proxy stores (the fields the registry reads).
StreamInfo(t) == [itemId |-> 42, startTime |-> t]

\* map.delete(id)
Without(m, id) == [k \in DOMAIN m \ {id} |-> m[k]]

\* The test of the sweep: info.startTime < oneHourAgo.
Stale_Inclusive(info, oneHourAgo) == info.startTime <= oneHourAgo
Stale(info, oneHourAgo) == info.startTime < oneHourAgo

\* The for-of loop of the sweep over the entries of the map, deleting as it goes.
RECURSIVE SweepFrom(_, _, _)
SweepFrom(todo, m, oneHourAgo) ==
    IF todo = {} THEN m
    ELSE LET id == CHOOSE x \in todo : TRUE
         IN  SweepFrom(todo \ {id},
                       IF Stale(m[id], oneHourAgo) THEN Without(m, id) ELSE m,
                       oneHourAgo)

SweepStale(m, t) == SweepFrom(DOMAIN m, m, t - STALE_AGE)

\* app.locals.serverStats = serverStats: the map the proxy registers in is the
\* map the sweep iterates.
SharedRegistry_NotExported == FALSE
SharedRegistry == TRUE

\* The req.on('close') listener: delete the record if it is still there.
CloseListener(m, s) == IF s \in DOMAIN m THEN Without(m, s) ELSE m

\* What the close of the caller's connection does to the upstream body stream:
\* the listener only touches the registry, and pipe() only detaches the closed
\* response from its source; nothing calls destroy() on streamResponse.data.
UpstreamAfterClose(up) == up

RegIdle ==
    /\ activeStreams = [k \in {} |-> StreamInfo(0)]
    /\ streamCount = 0
    /\ totalBandwidth = 0
    /\ sess = [s \in Sessions |-> NoSess]
    /\ received = [s \in Sessions |-> 0]
    /\ removals = [s \in Sessions |-> 0]
    /\ endedLog = [s \in Sessions |-> 0]

\* ------------------------------------------------ the progress reporter
Endpoints == {"progress", "start", "stop"}

\* req.body.position. A number is tenths/10 seconds plus half/2 ticks, so that
\* position * 10000000 is tenths * 1000000 + half/2, exactly.
Missing == [kind |-> "missing", tenths |-> 0, half |-> 0]
NumericString == [kind |-> "string", tenths |-> 50, half |-> 0]
Num(t, h) == [kind |-> "number", tenths |-> t, half |-> h]
Positions ==
    {Missing, NumericString} \cup {Num(t, h) : t \in {-10, 0, 1205}, h \in {0, 1}}

\* position < 0, for a number.
Negative(pos) == pos.tenths < 0

\* Math.round(position * 10000000): the nearest integer, a half rounded up.
\* A numeric string is converted to its number by the multiplication.
MathRound(pos) == pos.tenths * (TICKS_PER_SECOND \div 10) + pos.half

\* The truthiness of position, which the stop handler tests.
Truthy(pos) ==
    CASE pos.kind = "missing" -> FALSE
      [] pos.kind = "string" -> TRUE
      [] OTHER -> pos.tenths # 0 \/ pos.half # 0

\* typeof position !== 'number' || position < 0, the test of the progress handler.
InvalidPosition(pos) == pos.kind # "number" \/ Negative(pos)

\* The upstream call an endpoint awaits, with the body it posts.
ReportCall(e, pos) ==
    CASE e = "progress" ->
           [path |-> "/Sessions/Playing/Progress", hasTicks |-> TRUE,
            PositionTicks |-> MathRound(pos)]
      [] e = "stop" ->
           [path |-> "/Sessions/Playing/Stopped", hasTicks |-> TRUE,
            PositionTicks |-> IF Truthy(pos) THEN MathRound(pos) ELSE 0]
      [] OTHER ->
           [path |-> "/Sessions/Playing", hasTicks |-> FALSE, PositionTicks |-> 0]

AuthCall == [path |-> "/Users/authenticatebyname", hasTicks |-> FALSE,
             PositionTicks |-> 0]

NoRepReply == [status |-> 0, success |-> "none", error |-> "none"]

\* The handler from its start to its first upstream call, or to its answer.
HandlerStart(e, pos) ==
    IF e = "progress" /\ InvalidPosition(pos)
    THEN [pc |-> "done", calls |-> <<>>,
          reply |-> [status |-> 400, success |-> "none",
                     error |-> "Invalid position value"]]
    ELSE [pc |-> "post", calls |-> <<ReportCall(e, pos)>>, reply |-> NoRepReply]

RepIdle ==
    /\ repPc = "idle"
    /\ repReq = [endpoint |-> "none", position |-> Missing]
    /\ repAuth = "none"
    /\ repCalls = <<>>
    /\ repReply = NoRepReply

\* ------------------------------------------------------------------ Init
\* The state once server.js has called initializeAuth(), which has called
\* authenticate() and awaits it: the first attempt is in flight.
\* ------------------------------------------------- the headers of the proxy
\* A header that is not in the message.
NoHeader == "<none>"

\* Range headers a caller sends.
Ranges == {NoHeader, "bytes=0-99", "bytes=100-", "bytes=-50"}

\* What upstream answers with (axios resolves for a 2xx status only).
ContentTypes == {NoHeader, "video/mp4", "video/x-matroska"}
ContentLengths == {NoHeader, "100"}
ContentRanges == {NoHeader, "bytes 0-99/1000"}
Rejections == {"status", "timeout", "network"}
\* The statuses upstream answers a GET of a body with: whole, or a range of it.
UpstreamStatuses == {200, 206}

\* The options of the upstream GET: a streamed body, a 30000 ms timeout, and no
\* header taken from the caller's request.
UpstreamGet(req) ==
    [responseType |-> "stream", timeout |-> PROXY_TIMEOUT, range |-> NoHeader]

\* res.set(field, value) stores String(value): an undefined value is stored as
\* the text "undefined".
StringOf(v) == IF v = NoHeader THEN "undefined" ELSE v

\* The status and headers of the answer: res.set({...}) of the proxy on a
\* response whose status nobody set.
ProxyHeaders(up) ==
    [status |-> OK_STATUS,
     contentType |-> IF up.contentType = NoHeader THEN "video/mp4" ELSE up.contentType,
     contentLength |-> StringOf(up.contentLength),
     contentRange |-> NoHeader,
     acceptRanges |-> "bytes",
     allowOrigin |-> "*"]

\* The answer of the catch.
ProxyFailed ==
    [status |-> ERROR_STATUS, contentType |-> "application/json",
     contentLength |-> NoHeader, contentRange |-> NoHeader,
     acceptRanges |-> NoHeader, allowOrigin |-> NoHeader]

NoProxy == [pc |-> "idle", range |-> NoHeader, upstreamGet |-> <<>>,
            upstream |-> <<>>, answer |-> <<>>]

\* ------------------------------------------------------------ SimpleCache
\* Keys and values the callers store.
CacheKeys == {"recent", "resume", "42", "43"}
CacheData == {"v1", "v2"}

\* new SimpleCache(maxSize, ttlMs): this.cache is a Map, kept here as the
\* sequence of its entries in insertion order.
NewCache(maxSize) == [cache |-> <<>>, maxSize |-> maxSize, ttlMs |-> CACHE_TTL]

\* Map: keys(), has(key), get(key), delete(key), set(key, value). set of a key
\* that is in the map keeps its place in the order; a new key goes last.
MapKeys(m) == {m[i].key : i \in 1..Len(m)}
MapIndex(m, key) == CHOOSE i \in 1..Len(m) : m[i].key = key
MapDelete(m, key) == SelectSeq(m, LAMBDA e : e.key # key)
MapSet(m, key, value) ==
    LET e == [key |-> key, value |-> value]
    IN  IF key \in MapKeys(m) THEN [m EXCEPT ![MapIndex(m, key)] = e] ELSE Append(m, e)

\* this.cache.size >= this.maxSize
AtMaxSize_Beyond(size, maxSize) == size > maxSize
AtMaxSize(size, maxSize) == size >= maxSize

\* set(key, data): evict the first key of the Map when at max size, then store.
\* (keys().next().value of an empty Map is undefined, whose delete does nothing.)
CacheSetOf(c, key, data, t) ==
    LET kept == IF AtMaxSize(Len(c.cache), c.maxSize) /\ Len(c.cache) > 0
                THEN MapDelete(c.cache, c.cache[1].key)
                ELSE c.cache
    IN  [c EXCEPT !.cache = MapSet(kept, key, [data |-> data, timestamp |-> t])]

\* get(key): null for a missing entry; an expired entry is deleted and null is
\* returned; else the entry's data.
Expired(c, entry, t) == t - entry.timestamp > c.ttlMs
CacheGetOf(c, key, t) ==
    IF key \notin MapKeys(c.cache) THEN [c |-> c, value |-> "null"]
    ELSE LET entry == c.cache[MapIndex(c.cache, key)].value
         IN  IF Expired(c, entry, t)
             THEN [c |-> [c EXCEPT !.cache = MapDelete(c.cache, key)], value |-> "null"]
             ELSE [c |-> c, value |-> entry.data]

\* delete(key) and clear()
CacheDeleteOf(c, key) == [c EXCEPT !.cache = MapDelete(c.cache, key)]
CacheClearOf(c) == [c EXCEPT !.cache = <<>>]

\* ------------------------------------------------------- the items router
\* The routes of the router, in the order router.get registered them.
ItemRoutes == << [path |-> "/:itemId", handler |-> "details"],
                 [path |-> "/recent", handler |-> "recent"],
                 [path |-> "/resume", handler |-> "resume"],
                 [path |-> "/nextup", handler |-> "nextup"] >>

\* Paths requested under /api/items.
ItemPaths == {"/recent", "/resume", "/nextup", "/42", "/43"}

\* A route's path matches a request path: a parameter matches any one segment.
RouteMatches(route, path) == route.path = "/:itemId" \/ route.path = path

\* req.params.itemId: the segment after the slash.
ItemIdOf(path) ==
    CASE path = "/recent" -> "recent"
      [] path = "/resume" -> "resume"
      [] path = "/nextup" -> "nextup"
      [] path = "/42" -> "42"
      [] OTHER -> "43"

\* The router runs the first registered route that matches; its handler
\* answers and never calls next().
Dispatch(routes, path) ==
    LET first == CHOOSE i \in 1..Len(routes) :
                     /\ RouteMatches(routes[i], path)
                     /\ \A j \in 1..(i - 1) : ~RouteMatches(routes[j], path)
    IN  routes[first].handler

\* What upstream says of an item id.
UpstreamItems == {"found", "missing", "error"}

NoRouted == [path |-> "", handler |-> "none", itemId |-> "", status |-> NULL,
             body |-> "none"]

OtherIdle ==
    /\ proxy = NoProxy
    /\ itemCache = NewCache(1)
    /\ routed = NoRouted

Init ==
    /\ impl \in {"busy", "promise"}
    /\ now = 1
    /\ healed = FALSE
    /\ authData = NoCred
    /\ isAuthenticating = (impl = "busy")
    /\ authPromise = IF impl = "promise" THEN StartupProc ELSE NoProc
    /\ axiosInstance = [created |-> FALSE, token |-> NULL]
    /\ inflight = {StartupProc}
    /\ timerInstalled = FALSE
    /\ unhandledRejection = FALSE
    /\ pc = [p \in Procs |->
               IF p = StartupProc THEN "wait"
               ELSE IF p = TimerProc THEN "off" ELSE "idle"]
    /\ stage = [r \in Reqs |-> "mw"]
    /\ waitOn = [p \in Procs |-> IF p = StartupProc THEN StartupProc ELSE NoProc]
    /\ wake = [p \in Procs |-> "none"]
    /\ callLog = [p \in Procs |-> [failed |-> FALSE, ret |-> "none"]]
    /\ nextCalls = [r \in Reqs |-> 0]
    /\ mwResponses = [r \in Reqs |-> 0]
    /\ mwOutcome = [r \in Reqs |-> "none"]
    /\ apiCalls = [r \in Reqs |-> 0]
    /\ handlerResp = [r \in Reqs |-> "none"]
    /\ allRejected = TRUE
    /\ NegIdle
    /\ RegIdle
    /\ RepIdle
    /\ OtherIdle
    /\ ver = "current"

\* --------------------------------------------------------------- actions
\* Upstream answers the authentication call of owner o.
AuthResponse(o, kind, tok) ==
    LET waiters == IF impl = "promise"
                   THEN {p \in Procs : pc[p] = "wait" /\ waitOn[p] = o}
                   ELSE {o}
        heard == IF impl = "promise" THEN waiters
                 ELSE {o} \cup {p \in Procs : pc[p] = "wait" /\ waitOn[p] = PollProc}
        settled == IF kind \in FailKinds THEN "threw" ELSE "returned"
    IN  /\ Quiet
        /\ o \in inflight
        /\ UNCHANGED <<negVars, regVars, repVars, otherVars>>
        /\ healed => kind = "ok"
        /\ inflight' = inflight \ {o}
        /\ authData' = ApplyResponse(authData, kind, tok, now)
        /\ axiosInstance' =
               IF impl = "promise" /\ kind \notin FailKinds
               THEN [created |-> TRUE, token |-> authData'.token]
               ELSE axiosInstance
        /\ authPromise' = IF impl = "promise" THEN PromiseAfter(o, kind) ELSE authPromise
        /\ isAuthenticating' = IF impl = "busy" THEN FALSE ELSE isAuthenticating
        /\ wake' = [p \in Procs |-> IF p \in waiters THEN settled ELSE wake[p]]
        /\ callLog' = [p \in Procs |->
               IF p \in heard
               THEN [callLog[p] EXCEPT !.failed = (kind \in FailKinds)]
               ELSE callLog[p]]
        /\ allRejected' = (allRejected /\ kind \in {"reject", "neterr"})
        /\ UNCHANGED <<impl, now, healed, timerInstalled, unhandledRejection,
                       pc, stage, waitOn, reqVars>>

\* initializeAuth after its await: install the refresh timer, or log the failure.
StartupContinue ==
    /\ UNCHANGED <<negVars, regVars, repVars, otherVars>>
    /\ wake[StartupProc] # "none"
    /\ timerInstalled' = (wake[StartupProc] = "returned")
    /\ pc' = [pc EXCEPT ![StartupProc] = "done",
                        ![TimerProc] = IF wake[StartupProc] = "returned"
                                       THEN "idle" ELSE @]
    /\ wake' = [wake EXCEPT ![StartupProc] = "none"]
    /\ AuthStep(StartupProc, FALSE, wake[StartupProc])
    /\ UNCHANGED <<impl, now, healed, authData, axiosInstance, unhandledRejection,
                   stage, reqVars, allRejected>>

\* The setInterval callback: every 5 minutes, refresh when due.
RefreshTimer ==
    /\ UNCHANGED <<negVars, regVars, repVars, otherVars>>
    /\ Quiet
    /\ timerInstalled
    /\ pc[TimerProc] = "idle"
    /\ ShouldReauthenticate
    /\ AuthStep(TimerProc, TRUE, "none")
    /\ pc' = [pc EXCEPT ![TimerProc] = "wait"]
    /\ UNCHANGED <<impl, now, healed, authData, axiosInstance, timerInstalled,
                   unhandledRejection, stage, wake, reqVars, allRejected>>

\* The timer callback after its await. Only the promise-based callback catches.
TimerFinish(ret) ==
    /\ pc' = [pc EXCEPT ![TimerProc] = "idle"]
    /\ unhandledRejection' = (unhandledRejection \/ (impl = "busy" /\ ret = "threw"))
    /\ AuthStep(TimerProc, FALSE, ret)
    /\ UNCHANGED <<impl, now, healed, authData, axiosInstance, timerInstalled,
                   stage, reqVars, allRejected>>

TimerContinue ==
    /\ UNCHANGED <<negVars, regVars, repVars, otherVars>>
    /\ wake[TimerProc] # "none"
    /\ wake' = [wake EXCEPT ![TimerProc] = "none"]
    /\ TimerFinish(wake[TimerProc])

\* A request arrives at a route guarded by ensureAuth.
EnsureAuth(r) ==
    /\ UNCHANGED <<negVars, regVars, repVars, otherVars>>
    /\ Quiet
    /\ pc[r] = "idle"
    /\ RequestStep(r, Run("mw", "call"), "none")
    /\ UNCHANGED <<impl, now, healed, authData, axiosInstance, timerInstalled,
                   unhandledRejection, wake, allRejected>>

\* A request resumes after the authenticate() it awaited settled.
RequestContinue(r) ==
    /\ UNCHANGED <<negVars, regVars, repVars, otherVars>>
    /\ wake[r] # "none"
    /\ wake' = [wake EXCEPT ![r] = "none"]
    /\ RequestStep(r, Run(stage[r], wake[r]), wake[r])
    /\ UNCHANGED <<impl, now, healed, authData, axiosInstance, timerInstalled,
                   unhandledRejection, allRejected>>

\* The busy-wait loop of a joiner finds isAuthenticating false: return authData.
PollWake(p) ==
    /\ UNCHANGED <<negVars, regVars, repVars, otherVars>>
    /\ Quiet
    /\ Wakeable(p)
    /\ UNCHANGED wake
    /\ IF p = TimerProc
       THEN TimerFinish("returned")
       ELSE /\ RequestStep(p, Run(stage[p], "returned"), "returned")
            /\ UNCHANGED <<impl, now, healed, authData, axiosInstance,
                           timerInstalled, unhandledRejection, allRejected>>

\* Upstream answers the API call of the route handler.
ApiResponse(r, ok) ==
    /\ UNCHANGED <<negVars, regVars, repVars, otherVars>>
    /\ Quiet
    /\ pc[r] = "api"
    /\ pc' = [pc EXCEPT ![r] = "done"]
    /\ handlerResp' = [handlerResp EXCEPT ![r] = IF ok THEN "ok" ELSE "error"]
    /\ UNCHANGED <<authVars, stage, waitOn, wake, callLog, nextCalls, mwResponses,
                   mwOutcome, apiCalls, histVars>>

\* Time passes. A joiner's poll period (100 ms) is shorter than one clock unit
\* (AUTH_CACHE_DURATION is at least 1000 ms): it wakes before the next tick.
Tick ==
    /\ UNCHANGED <<negVars, regVars, repVars, otherVars>>
    /\ Quiet
    /\ now < MaxTime
    /\ \A p \in Procs : ~Wakeable(p)
    /\ now' = now + 1
    /\ UNCHANGED <<impl, healed, authData, isAuthenticating, authPromise,
                   axiosInstance, inflight, timerInstalled, unhandledRejection,
                   procVars, reqVars, histVars>>

\* Upstream starts accepting the credentials, for good.
Heal ==
    /\ UNCHANGED <<negVars, regVars, repVars, otherVars>>
    /\ Quiet
    /\ ~healed
    /\ healed' = TRUE
    /\ UNCHANGED <<impl, now, authData, isAuthenticating, authPromise,
                   axiosInstance, inflight, timerInstalled, unhandledRejection,
                   procVars, reqVars, histVars>>

Background ==
    \/ \E o \in Procs, kind \in Kinds, tok \in 1..MaxToken : AuthResponse(o, kind, tok)
    \/ StartupContinue
    \/ RefreshTimer
    \/ TimerContinue
    \/ Tick

Next ==
    \/ Background
    \/ \E r \in Reqs : EnsureAuth(r)
    \/ \E r \in Reqs : RequestContinue(r)
    \/ \E p \in Reqs \cup {TimerProc} : PollWake(p)
    \/ \E r \in Reqs, ok \in BOOLEAN : ApiResponse(r, ok)

Spec == Init /\ [][Next]_vars

\* No client request ever arrives, and upstream comes to accept the credentials.
NextHealing ==
    \/ Background
    \/ Heal

\* The event loop runs every queued callback, an interval timer keeps firing,
\* and every upstream call ends (axios timeout: 10000).
FairSpec ==
    /\ Init
    /\ [][NextHealing]_vars
    /\ WF_vars(StartupContinue)
    /\ WF_vars(RefreshTimer)
    /\ WF_vars(TimerContinue)
    /\ WF_vars(\E o \in Procs, kind \in Kinds, tok \in 1..MaxToken :
                   AuthResponse(o, kind, tok))

\* ---------------------------------------------- the negotiation alone
\* The process after a successful startup authentication, with the refresh timer
\* installed, serving GET /api/stream/:itemId requests one after the other.
\* The process after a successful startup authentication, with the refresh
\* timer installed.
Authenticated ==
    /\ now = 1
    /\ healed = FALSE
    /\ authData = [token |-> 1, userId |-> 1, serverId |-> 1, lastAuth |-> 1]
    /\ isAuthenticating = FALSE
    /\ authPromise = NoProc
    /\ axiosInstance = IF impl = "promise" THEN [created |-> TRUE, token |-> 1]
                       ELSE [created |-> FALSE, token |-> NULL]
    /\ inflight = {}
    /\ timerInstalled = TRUE
    /\ unhandledRejection = FALSE
    /\ pc = [p \in Procs |->
               IF p = StartupProc THEN "done"
               ELSE IF p = TimerProc THEN "idle" ELSE "idle"]
    /\ stage = [r \in Reqs |-> "mw"]
    /\ waitOn = [p \in Procs |-> NoProc]
    /\ wake = [p \in Procs |-> "none"]
    /\ callLog = [p \in Procs |->
               IF p = StartupProc THEN [failed |-> FALSE, ret |-> "returned"]
               ELSE [failed |-> FALSE, ret |-> "none"]]
    /\ nextCalls = [r \in Reqs |-> 0]
    /\ mwResponses = [r \in Reqs |-> 0]
    /\ mwOutcome = [r \in Reqs |-> "none"]
    /\ apiCalls = [r \in Reqs |-> 0]
    /\ handlerResp = [r \in Reqs |-> "none"]
    /\ allRejected = FALSE

NegInit ==
    /\ impl \in {"busy", "promise"}
    /\ Authenticated
    /\ ver \in {"current", "earlier"}
    /\ NegIdle
    /\ RegIdle
    /\ RepIdle
    /\ OtherIdle

unchangedAuth ==
    UNCHANGED <<authVars, procVars, reqVars, histVars, ver, regVars, repVars, otherVars>>

\* The request arrives with a valid credential; the item exists; the handler
\* posts the PlaybackInfo query.
NegRequest(q) ==
    /\ negPc \in {"idle", "done"}
    /\ CredentialValid
    /\ negPc' = "playbackInfo"
    /\ query' = q
    /\ playback' = NoPlayback
    /\ result' = NoResult
    /\ reply' = NoReply
    /\ unchangedAuth

\* Upstream answers without a media source: 400.
NegNoSource(ps) ==
    /\ negPc = "playbackInfo"
    /\ playback' = [NoPlayback EXCEPT !.PlaySessionId = ps]
    /\ reply' = [kind |-> "error", status |-> 400, target |-> NoUrl]
    /\ negPc' = "done"
    /\ UNCHANGED <<query, result>>
    /\ unchangedAuth

\* Upstream answers with media sources: the handler takes the first and decides.
NegDecide(ms, ps) ==
    /\ negPc = "playbackInfo"
    /\ playback' = [hasSource |-> TRUE, PlaySessionId |-> ps, mediaSource |-> ms]
    /\ result' = Negotiate(ver, query, playback', authData)
    /\ negPc' = "decided"
    /\ UNCHANGED <<query, reply>>
    /\ unchangedAuth

\* The handler answers as the format parameter asks.
NegRespond ==
    /\ negPc = "decided"
    /\ reply' = ReplyFor(ver, query.format, result)
    /\ negPc' = "done"
    /\ UNCHANGED <<query, playback, result>>
    /\ unchangedAuth

NegNext ==
    \/ \E q \in Queries : NegRequest(q)
    \/ \E ps \in PlaySessionIds : NegNoSource(ps)
    \/ \E ms \in MediaSources, ps \in PlaySessionIds : NegDecide(ms, ps)
    \/ NegRespond

NegSpec == NegInit /\ [][NegNext]_vars

\* ------------------------------------------------ progress, start, stop
\* The authenticated process serving POST /api/stream/:itemId/progress, /start
\* and /stop requests one after the other, each through ensureAuth.
RepInit ==
    /\ impl \in {"busy", "promise"}
    /\ Authenticated
    /\ ver \in {"current", "earlier"}
    /\ NegIdle
    /\ RegIdle
    /\ RepIdle
    /\ OtherIdle

unchangedByRep ==
    UNCHANGED <<impl, healed, isAuthenticating, authPromise, inflight, timerInstalled,
                unhandledRejection, procVars, reqVars, histVars, negVars, regVars,
                otherVars>>

\* A report request arrives. ensureAuth awaits getAuthData(): with a fresh
\* credential next() runs the handler at once, otherwise authenticate() posts
\* to upstream first.
RepRequest(e, pos) ==
    LET h == HandlerStart(e, pos)
    IN  /\ repPc \in {"idle", "done"}
        /\ repReq' = [endpoint |-> e, position |-> pos]
        /\ IF ShouldReauthenticate
           THEN /\ repPc' = "auth"
                /\ repAuth' = "none"
                /\ repCalls' = <<AuthCall>>
                /\ repReply' = NoRepReply
           ELSE /\ repPc' = h.pc
                /\ repAuth' = "passed"
                /\ repCalls' = h.calls
                /\ repReply' = h.reply
        /\ UNCHANGED <<now, authData, axiosInstance>>
        /\ unchangedByRep

\* Upstream answers the authentication call ensureAuth waits for: getAuthData
\* throws, and ensureAuth answers 503, or returns, and next() runs the handler.
RepAuthResponse(kind, tok) ==
    LET ad == ApplyResponse(authData, kind, tok, now)
        h == HandlerStart(repReq.endpoint, repReq.position)
    IN  /\ repPc = "auth"
        /\ authData' = ad
        /\ axiosInstance' =
               IF impl = "promise" /\ kind \notin FailKinds
               THEN [created |-> TRUE, token |-> ad.token]
               ELSE axiosInstance
        /\ IF kind \in FailKinds \/ Falsy(ad.token)
           THEN /\ repPc' = "done"
                /\ repAuth' = "refused"
                /\ repReply' = [status |-> 503, success |-> "none",
                                error |-> "Authentication service unavailable"]
                /\ UNCHANGED repCalls
           ELSE /\ repPc' = h.pc
                /\ repAuth' = "passed"
                /\ repCalls' = repCalls \o h.calls
                /\ repReply' = h.reply
        /\ UNCHANGED <<now, repReq>>
        /\ unchangedByRep

\* Upstream answers the report call: res.json({success: true}), or the catch's
\* res.json({success: false, ...}); res.json leaves the status at 200.
RepUpstream(ok) ==
    /\ repPc = "post"
    /\ repPc' = "done"
    /\ repReply' = IF ok
                   THEN [status |-> 200, success |-> "true", error |-> "none"]
                   ELSE [status |-> 200, success |-> "false", error |-> "report failed"]
    /\ UNCHANGED <<now, authData, axiosInstance, repReq, repAuth, repCalls>>
    /\ unchangedByRep

\* Time passes between two requests.
RepTick ==
    /\ repPc \in {"idle", "done"}
    /\ now < MaxTime
    /\ now' = now + 1
    /\ UNCHANGED <<authData, axiosInstance, repVars>>
    /\ unchangedByRep

RepNext ==
    \/ \E e \in Endpoints, pos \in Positions : RepRequest(e, pos)
    \/ \E kind \in Kinds, tok \in 1..MaxToken : RepAuthResponse(kind, tok)
    \/ \E ok \in BOOLEAN : RepUpstream(ok)
    \/ RepTick

RepSpec == RepInit /\ [][RepNext]_vars

\* ------------------------------------------- the stream proxy's sessions
\* The process with the promise-based middleware and the current route file,
\* serving format=direct
\* requests whose negotiation succeeded, and the sweep timer of the server.
RegInit ==
    /\ impl = "promise"
    /\ Authenticated
    /\ ver = "current"
    /\ NegIdle
    /\ RegIdle
    /\ RepIdle
    /\ OtherIdle

authRest == <<impl, healed, authData, isAuthenticating, authPromise, axiosInstance,
              inflight, timerInstalled, unhandledRejection>>
unchangedByReg ==
    UNCHANGED <<authRest, procVars, reqVars, histVars, negVars, repVars, otherVars>>

\* The first event that ended the stream for the caller is kept.
Over(s, ev) == IF sess[s].over = "none" THEN ev ELSE sess[s].over

\* format === 'direct': generate the session id, count the stream, store the
\* record, then await the upstream GET of the direct URL.
DirectRequest(s, ms, rnd) ==
    /\ sess[s].phase = "idle"
    /\ now + STALE_AGE < MaxRegTime
    /\ streamCount' = streamCount + 1
    /\ activeStreams' = (SessionId(ms, rnd) :> StreamInfo(now)) @@ activeStreams
    /\ sess' = [sess EXCEPT ![s].phase = "awaiting", ![s].id = SessionId(ms, rnd),
                            ![s].upstream = "pending"]
    /\ UNCHANGED <<now, totalBandwidth, received, removals, endedLog>>
    /\ unchangedByReg

\* The awaited upstream GET rejects (an error status, or the 30000 ms timeout):
\* the catch answers 500. No close listener was installed.
UpstreamFails(s) ==
    /\ sess[s].phase = "awaiting"
    /\ sess' = [sess EXCEPT ![s].phase = "failed", ![s].open = FALSE,
                            ![s].over = Over(s, "upstreamError"),
                            ![s].upstream = "failed"]
    /\ UNCHANGED <<now, activeStreams, streamCount, totalBandwidth, received,
                   removals, endedLog>>
    /\ unchangedByReg

\* The upstream GET resolves: headers are set, the close listener is installed,
\* the body is piped.
UpstreamResponds(s) ==
    /\ sess[s].phase = "awaiting"
    /\ sess' = [sess EXCEPT ![s].phase = "streaming", ![s].listening = TRUE,
                            ![s].upstream = "open"]
    /\ UNCHANGED <<now, activeStreams, streamCount, totalBandwidth, received,
                   removals, endedLog>>
    /\ unchangedByReg

\* The request's 'close' event: the listener, when installed, runs once.
EmitClose(s) ==
    LET there == sess[s].listening /\ sess[s].id \in DOMAIN activeStreams
    IN  /\ activeStreams' = IF sess[s].listening
                            THEN CloseListener(activeStreams, sess[s].id)
                            ELSE activeStreams
        /\ removals' = [removals EXCEPT ![s] = IF there THEN @ + 1 ELSE @]
        /\ endedLog' = [endedLog EXCEPT ![s] = IF there THEN @ + 1 ELSE @]

\* The caller disconnects or aborts.
ClientCloses(s) ==
    /\ sess[s].open
    /\ sess[s].phase \in {"awaiting", "streaming", "stalled"}
    /\ sess' = [sess EXCEPT ![s].open = FALSE, ![s].over = Over(s, "disconnect"),
                            ![s].phase = IF @ = "awaiting" THEN @ ELSE "closed",
                            ![s].upstream = UpstreamAfterClose(@)]
    /\ EmitClose(s)
    /\ UNCHANGED <<now, streamCount, totalBandwidth, received>>
    /\ unchangedByReg

\* A chunk of n bytes arrives from upstream and is piped to the caller.
Chunk(s, n) ==
    /\ sess[s].phase = "streaming"
    /\ sess[s].open
    /\ received[s] + n <= MaxBytes
    /\ received' = [received EXCEPT ![s] = @ + n]
    /\ UNCHANGED <<now, activeStreams, streamCount, totalBandwidth, sess,
                   removals, endedLog>>
    /\ unchangedByReg

\* The upstream body ends: pipe() ends the response, the request is complete
\* and its 'close' event is emitted.
StreamCompletes(s) ==
    /\ sess[s].phase = "streaming"
    /\ sess[s].open
    /\ sess' = [sess EXCEPT ![s].phase = "finished", ![s].open = FALSE,
                            ![s].over = Over(s, "complete"),
                            ![s].upstream = "ended"]
    /\ EmitClose(s)
    /\ UNCHANGED <<now, streamCount, totalBandwidth, received>>
    /\ unchangedByReg

\* The upstream body errors mid-stream: pipe() stops, nothing listens to the
\* error, the response stays open until the caller gives up.
UpstreamBodyErrors(s) ==
    /\ sess[s].phase = "streaming"
    /\ sess[s].open
    /\ sess' = [sess EXCEPT ![s].phase = "stalled", ![s].over = Over(s, "upstreamError"),
                            ![s].upstream = "errored"]
    /\ UNCHANGED <<now, activeStreams, streamCount, totalBandwidth, received,
                   removals, endedLog>>
    /\ unchangedByReg

\* The setInterval callback of the server: the stale sweep.
Sweep ==
    /\ activeStreams' = IF SharedRegistry
                        THEN SweepStale(activeStreams, now)
                        ELSE activeStreams
    /\ removals' = [s \in Sessions |->
                      IF /\ sess[s].id \in DOMAIN activeStreams
                         /\ sess[s].id \notin DOMAIN activeStreams'
                      THEN removals[s] + 1 ELSE removals[s]]
    /\ UNCHANGED <<now, streamCount, totalBandwidth, sess, received, endedLog>>
    /\ unchangedByReg

\* Time passes.
RegTick ==
    /\ now < MaxRegTime
    /\ now' = now + 1
    /\ UNCHANGED <<activeStreams, streamCount, totalBandwidth, sess, received,
                   removals, endedLog>>
    /\ unchangedByReg

\* What happens to a registered stream, and the timers.
RegOthers ==
    \/ \E s \in Sessions : UpstreamFails(s)
    \/ \E s \in Sessions : UpstreamResponds(s)
    \/ \E s \in Sessions : ClientCloses(s)
    \/ \E s \in Sessions : StreamCompletes(s)
    \/ \E s \in Sessions : UpstreamBodyErrors(s)
    \/ Sweep
    \/ RegTick

\* Every event that reads or writes the registry, in the runs where each
\* request reads the clock in a millisecond of its own.
RegEvents ==
    \/ \E s \in Sessions, rnd \in {"i"} : DirectRequest(s, s, rnd)
    \/ RegOthers

RegNext ==
    \/ RegEvents
    \/ \E s \in Sessions, n \in 1..MaxBytes : Chunk(s, n)

RegSpec == RegInit /\ [][RegNext]_vars

\* An interval timer keeps firing and time keeps passing; nothing is assumed of
\* the callers or of upstream. The chunks of a body are left out: Chunk writes
\* only received, which no event of the registry reads.
RegFairSpec ==
    /\ RegInit
    /\ [][RegEvents]_vars
    /\ WF_vars(Sweep)
    /\ WF_vars(RegTick)

\* Every event of the registry, requests reading the clock in any millisecond,
\* also one another request read, and drawing any suffix, also one drawn before.
IdNext ==
    \/ \E s \in Sessions, ms \in Millis, rnd \in Suffixes : DirectRequest(s, ms, rnd)
    \/ RegOthers

IdSpec == RegInit /\ [][IdNext]_vars

\* ------------------------------------------------ the proxy's headers
unchangedByProxy ==
    UNCHANGED <<authVars, procVars, reqVars, histVars, negVars, regVars, repVars,
                itemCache, routed>>

\* A format=direct request arrives, with or without a Range header; the
\* handler issues the upstream GET.
ProxyRequest(range) ==
    /\ proxy.pc = "idle"
    /\ proxy' = [proxy EXCEPT !.pc = "awaiting", !.range = range,
                              !.upstreamGet = UpstreamGet(proxy)]
    /\ unchangedByProxy

\* The upstream GET resolves with a 2xx status: the headers are set and the
\* body is piped.
ProxyUpstreamAnswers(status, ctype, clen, crange) ==
    /\ proxy.pc = "awaiting"
    /\ LET up == [status |-> status, contentType |-> ctype, contentLength |-> clen,
                  contentRange |-> crange]
       IN  proxy' = [proxy EXCEPT !.pc = "piping", !.upstream = up,
                                  !.answer = ProxyHeaders(up)]
    /\ unchangedByProxy

\* The upstream GET rejects: another status, the timeout, or no connection.
ProxyUpstreamRejects(why) ==
    /\ proxy.pc = "awaiting"
    /\ proxy' = [proxy EXCEPT !.pc = "failed", !.upstream = [rejected |-> why],
                              !.answer = ProxyFailed]
    /\ unchangedByProxy

ProxyNext ==
    \/ \E range \in Ranges : ProxyRequest(range)
    \/ \E status \in UpstreamStatuses, ctype \in ContentTypes,
          clen \in ContentLengths, crange \in ContentRanges :
              ProxyUpstreamAnswers(status, ctype, clen, crange)
    \/ \E why \in Rejections : ProxyUpstreamRejects(why)

ProxySpec == RegInit /\ [][ProxyNext]_vars

\* --------------------------------------------- the cache and the items router
\* A cache of any max size from 1 on, empty.
CacheInit ==
    /\ impl = "promise"
    /\ Authenticated
    /\ ver = "current"
    /\ NegIdle
    /\ RegIdle
    /\ RepIdle /\ proxy = NoProxy /\ routed = NoRouted
    /\ \E maxSize \in 1..MaxCacheSize : itemCache = NewCache(maxSize)

unchangedByItems ==
    UNCHANGED <<authRest, procVars, reqVars, histVars, negVars, regVars, repVars, proxy>>

CacheSet(key, data) ==
    /\ itemCache' = CacheSetOf(itemCache, key, data, now)
    /\ UNCHANGED <<now, routed>>
    /\ unchangedByItems

CacheGet(key) ==
    /\ itemCache' = CacheGetOf(itemCache, key, now).c
    /\ UNCHANGED <<now, routed>>
    /\ unchangedByItems

CacheDelete(key) ==
    /\ itemCache' = CacheDeleteOf(itemCache, key)
    /\ UNCHANGED <<now, routed>>
    /\ unchangedByItems

CacheClear ==
    /\ itemCache' = CacheClearOf(itemCache)
    /\ UNCHANGED <<now, routed>>
    /\ unchangedByItems

\* Time passes.
CacheTick ==
    /\ now < MaxCacheTime
    /\ now' = now + 1
    /\ UNCHANGED <<itemCache, routed>>
    /\ unchangedByItems

CacheNext ==
    \/ \E key \in CacheKeys, data \in CacheData : CacheSet(key, data)
    \/ \E key \in CacheKeys : CacheGet(key)
    \/ \E key \in CacheKeys : CacheDelete(key)
    \/ CacheClear
    \/ CacheTick

CacheSpec == CacheInit /\ [][CacheNext]_vars

\* GET /api/items<path> with a valid credential: the router picks the handler.
\* The item-details handler answers from the cache, else asks upstream and
\* caches what it built; the list handlers ask upstream.
ItemsRequest(path, up, data) ==
    LET handler == Dispatch(ItemRoutes, path)
        itemId == ItemIdOf(path)
        got == CacheGetOf(itemCache, itemId, now)
        answer(status, body) ==
            [path |-> path, handler |-> handler, itemId |-> itemId,
             status |-> status, body |-> body]
    IN  /\ IF handler = "details"
           THEN IF got.value # "null"
                THEN /\ itemCache' = got.c
                     /\ routed' = answer(OK_STATUS, got.value)
                ELSE CASE up = "found" ->
                            /\ itemCache' = CacheSetOf(got.c, itemId, data, now)
                            /\ routed' = answer(OK_STATUS, data)
                       [] up = "missing" ->
                            /\ itemCache' = got.c
                            /\ routed' = answer(NOT_FOUND_STATUS, "Item not found")
                       [] OTHER ->
                            /\ itemCache' = got.c
                            /\ routed' = answer(ERROR_STATUS, "Failed to get item details")
           ELSE /\ itemCache' = itemCache
                /\ routed' = IF up = "found" THEN answer(OK_STATUS, "items")
                             ELSE answer(ERROR_STATUS, "Failed")
        /\ UNCHANGED now
        /\ unchangedByItems

ItemsNext ==
    \/ \E path \in ItemPaths, up \in UpstreamItems, data \in CacheData :
           ItemsRequest(path, up, data)
    \/ CacheTick

ItemsSpec == CacheInit /\ [][ItemsNext]_vars

\* ---------------------------------------------------------------- claims
\* The attempt of some owner ends in this step with authenticate() throwing.
AttemptFails ==
    \E o \in Procs : o \in inflight /\ o \notin inflight' /\ wake'[o] = "threw"

StartupFailed ==
    pc[StartupProc] = "done" /\ callLog[StartupProc].ret = "threw"

\* C1: single-flight. At most one POST /Users/authenticatebyname is in flight at
\* any time, and every process that awaits a promise awaits the one attempt that
\* is in flight (it joined it, it did not start its own).
C1_SingleFlight ==
    /\ Cardinality(inflight) <= 1
    /\ \A p \in Procs :
           (pc[p] = "wait" /\ wake[p] = "none" /\ waitOn[p] # PollProc)
               => waitOn[p] \in inflight

\* C1 witness: an attempt is in flight and another caller has joined it.
C1_Witness ==
    \E o \in inflight, p \in Procs :
        p # o /\ pc[p] = "wait" /\ waitOn[p] \in {o, PollProc}

\* C2: when the outstanding attempt fails, every caller of authenticate() that
\* waited for it receives the error: none whose attempt failed returns normally.
C2_ErrorToEveryWaiter ==
    \A p \in Procs : callLog[p].ret = "returned" => ~callLog[p].failed

\* C3: a failed attempt leaves token, userId, serverId and lastAuth as they were.
C3_FailureLeavesCredential ==
    [][AttemptFails => authData' = authData]_vars

\* C4: after a failed startup authentication, with no client request, once
\* upstream accepts the credentials the credential eventually becomes valid.
C4_TimerSelfHeals ==
    (StartupFailed /\ healed) ~> CredentialValid

\* C5: whenever getAuthData() returns normally (ensureAuth then calls next()),
\* the credential it returns is valid at that time.
C5_HandedOutValid ==
    [][\A r \in Reqs : nextCalls'[r] > nextCalls[r] => CredentialValid']_vars

\* C6: a past failure is never remembered. (a) Whenever the auth module says an
\* attempt is in progress, one is in flight, so a request that needs a credential
\* starts an attempt unless one is in flight; (b) while upstream has rejected
\* every attempt, no request gets past ensureAuth; (c) a request is refused only
\* when the attempt it awaited threw or left no token.
C6_NoLatch == AuthInProgress => inflight # {}

C6_RejectedMeansRefused ==
    allRejected =>
        \A r \in Reqs : nextCalls[r] = 0 /\ apiCalls[r] = 0 /\ handlerResp[r] # "ok"

C6_RefusedOnlyOnFailure ==
    \A r \in Reqs :
        mwResponses'[r] > mwResponses[r]
            => (wake[r] = "threw" \/ Falsy(authData.token))

\* C6: a failed startup leaves no permanent failure behind: the in-progress
\* marker never outlives its attempt, requests are refused while upstream
\* rejects, and a request is refused only when its own attempt failed or no
\* token is stored.
C6_NoPermanentFailure ==
    /\ [](C6_NoLatch /\ C6_RejectedMeansRefused)
    /\ [][C6_RefusedOnlyOnFailure]_vars

\* C6 witness: the startup authentication failed, one request was refused and a
\* later one got through.
C6_Witness ==
    /\ StartupFailed
    /\ \E r1, r2 \in Reqs : mwResponses[r1] = 1 /\ handlerResp[r2] = "ok"

Negotiated == negPc \in {"decided", "done"} /\ playback.hasSource

\* C8: a descriptor with SupportsDirectPlay, asked with quality 'auto', is
\* negotiated as direct-play with no transcode reason, whatever
\* SupportsDirectStream, the client and the caller's other options are.
C8_DirectPlay ==
    (Negotiated /\ playback.mediaSource.SupportsDirectPlay /\ query.quality = "auto")
        => (result.directPlay /\ result.transcodeReasons = <<>>
            /\ result.method = "direct")

\* C8 witness: such a negotiation, for a descriptor that also supports direct
\* stream, a browser client and caller-supplied options.
C8_Witness ==
    /\ Negotiated
    /\ playback.mediaSource.SupportsDirectPlay
    /\ playback.mediaSource.SupportsDirectStream
    /\ query.quality = "auto"
    /\ query.client = "browser"
    /\ query.options = CallerOptions
    /\ result.directPlay

\* The URL carries exactly the preset of the tier.
CarriesPreset(url, quality) ==
    /\ DOMAIN QualityPreset(quality) \subseteq DOMAIN url.params
    /\ \A k \in DOMAIN QualityPreset(quality) :
           url.params[k] = QualityPreset(quality)[k]

\* C9: for quality low, medium or high, whatever the descriptor and the caller's
\* width, height and bitrate, both URLs carry the tier's preset.
C9_PresetsApplied ==
    (Negotiated /\ query.quality \in {"low", "medium", "high"})
        => /\ CarriesPreset(result.hlsUrl, query.quality)
           /\ CarriesPreset(result.directUrl, query.quality)

\* C10: SupportsDirectPlay=false, SupportsDirectStream=true, quality 'auto' gives
\* remux, the one reason "container remux" (the code spells it "Container
\* remux"), and both URLs carry the upstream play-session id.
C10_RemuxSession ==
    (/\ Negotiated
     /\ ~playback.mediaSource.SupportsDirectPlay
     /\ playback.mediaSource.SupportsDirectStream
     /\ query.quality = "auto")
        => /\ result.method = "remux"
           /\ result.transcodeReasons = <<"Container remux">>
           /\ "PlaySessionId" \in DOMAIN result.hlsUrl.params
           /\ "PlaySessionId" \in DOMAIN result.directUrl.params
           /\ result.hlsUrl.params["PlaySessionId"] = playback.PlaySessionId
           /\ result.directUrl.params["PlaySessionId"] = playback.PlaySessionId

\* The same request asked with quality 'auto'.
AsAuto(q) == [q EXCEPT !.quality = "auto"]

\* C11: a quality value outside auto, low, medium, high is negotiated as 'auto'
\* is: same direct-play flag, method, URLs and transcode reasons, for every
\* descriptor and every set of caller options.
C11_UnknownQualityIsAuto ==
    (Negotiated /\ query.quality \notin {"auto", "low", "medium", "high"})
        => LET asAuto == Negotiate(ver, AsAuto(query), playback, authData)
           IN  /\ result.directPlay = asAuto.directPlay
               /\ result.method = asAuto.method
               /\ result.streamUrl = asAuto.streamUrl
               /\ result.hlsUrl = asAuto.hlsUrl
               /\ result.directUrl = asAuto.directUrl
               /\ result.transcodeReasons = asAuto.transcodeReasons

\* C12: a browser client asking for a descriptor whose container is mkv is
\* transcoded, never direct-played, whatever SupportsDirectPlay says.
C12_BrowserMkvTranscodes ==
    (Negotiated /\ query.client = "browser"
                /\ playback.mediaSource.Container = "mkv")
        => (result.method = "transcode" /\ ~result.directPlay)

\* The handler has answered a request whose negotiation succeeded.
Responded == negPc = "done" /\ playback.hasSource

\* C13: after a successful negotiation, no format answers the metadata as JSON,
\* format=hls answers a redirect to the negotiated master.m3u8 URL, format=direct
\* proxies the bytes of the negotiated direct URL.
C13_FormatSelectsResponse ==
    Responded =>
        CASE query.format = "hls" ->
               /\ reply.kind = "redirect"
               /\ reply.target = result.hlsUrl
               /\ reply.target.path = "master.m3u8"
          [] query.format = "direct" ->
               /\ reply.kind = "proxy"
               /\ reply.target = result.directUrl
          [] OTHER -> reply.kind = "json"

\* C14: a record inserted by a format=direct request is removed exactly once, by
\* the first of client disconnect, client abort, upstream stream error and
\* normal completion: once any of them has happened the record is no longer in
\* the registry, and no record is removed, or logged as ended, twice.
C14_RemovedExactlyOnce ==
    \A s \in Sessions :
        /\ sess[s].over \in EndEvents => sess[s].id \notin DOMAIN activeStreams
        /\ removals[s] <= 1
        /\ endedLog[s] <= 1

\* The sum of the bytes all streams received.
RECURSIVE SumReceived(_)
SumReceived(S) ==
    IF S = {} THEN 0
    ELSE LET s == CHOOSE x \in S : TRUE IN received[s] + SumReceived(S \ {s})

\* C15: every chunk received from upstream is added to the session record's byte
\* counter and to the global total-bandwidth counter, so the global counter is
\* the sum over all sessions, a stream's record carries that stream's sum, and
\* the global counter never decreases.
C15_BytesCounted ==
    /\ totalBandwidth = SumReceived(Sessions)
    /\ \A s \in Sessions :
           sess[s].id \in DOMAIN activeStreams =>
               LET info == activeStreams[sess[s].id]
                   counted == IF "bytes" \in DOMAIN info THEN info["bytes"] ELSE 0
               IN  counted = received[s]

\* The records of m that started more than STALE_AGE before t.
Older(m, t) == {id \in DOMAIN m : t - m[id].startTime > STALE_AGE}

\* C16: a sweep removes exactly the records older than the threshold, each once,
\* and leaves every other record, streamCount and totalBandwidth as they were
\* (so it changes nothing when no record is older and empties the registry when
\* all are); a second sweep of the registry it leaves changes nothing.
C16_SweepExact ==
    [][Sweep =>
          /\ DOMAIN activeStreams' = DOMAIN activeStreams \ Older(activeStreams, now)
          /\ \A id \in DOMAIN activeStreams' : activeStreams'[id] = activeStreams[id]
          /\ \A s \in Sessions :
                 removals'[s] = removals[s]
                     + (IF sess[s].id \in Older(activeStreams, now) THEN 1 ELSE 0)
          /\ streamCount' = streamCount
          /\ totalBandwidth' = totalBandwidth
          /\ SweepStale(activeStreams', now') = activeStreams']_vars

\* C16 witness: a sweep has removed the record of a stream that is still piped
\* (its connection never closed) and kept another, which is exactly STALE_AGE old.
C16_Witness ==
    /\ \E s \in Sessions : removals[s] = 1 /\ sess[s].phase = "streaming" /\ sess[s].open
    /\ \E s \in DOMAIN activeStreams : now - activeStreams[s].startTime = STALE_AGE

\* C17: whatever the callers and upstream do, every record the proxy registered
\* is eventually out of the registry: the sweep timer removes it once it is
\* older than the max age, with no further request and no close of its connection.
C17_NoLeakedRecord ==
    \A s \in Sessions :
        (sess[s].id \in DOMAIN activeStreams) ~> (sess[s].id \notin DOMAIN activeStreams)

\* C17 witness: the sweep removed the record of a stream whose upstream request
\* is still pending and whose connection is still open.
C17_Witness ==
    \E s \in Sessions :
        /\ sess[s].phase = "awaiting"
        /\ sess[s].open
        /\ sess[s].id \notin DOMAIN activeStreams
        /\ removals[s] = 1

\* The report request has been answered.
Reported == repPc = "done"

\* C18: a progress request whose position is not a non-negative number is
\* answered 400 and causes no upstream call.
C18_InvalidPositionRejected ==
    (Reported /\ repReq.endpoint = "progress" /\ InvalidPosition(repReq.position))
        => (repReply.status = 400 /\ repCalls = <<>>)

\* n is the integer nearest to position * 10000000 (either neighbour on a tie).
NearestTicks(n, pos) ==
    LET d == n - pos.tenths * (TICKS_PER_SECOND \div 10)
    IN  2 * d - pos.half \in -1..1

\* 120.5 seconds.
Pos120_5 == Num(1205, 0)

\* C19: whatever numeric position the progress and stop endpoints accept, the
\* PositionTicks they forward is the position times 10,000,000, rounded (120.5
\* goes out as 1205000000), and is never negative.
C19_TicksForwarded ==
    \A i \in DOMAIN repCalls :
        (repCalls[i].hasTicks /\ repReq.position.kind = "number")
            => /\ NearestTicks(repCalls[i].PositionTicks, repReq.position)
               /\ repReq.position = Pos120_5 => repCalls[i].PositionTicks = 1205000000
               /\ repCalls[i].PositionTicks >= 0

\* C20: a progress request with a valid position, a start or a stop request is
\* never answered with an error status: whatever fails, obtaining the credential
\* included, the answer is success:false with a non-error status.
C20_FailuresSwallowed ==
    (Reported /\ ~(repReq.endpoint = "progress" /\ InvalidPosition(repReq.position)))
        => /\ repReply.status < 400
           /\ repReply.success \in {"true", "false"}

\* C24: when the upstream GET of a format=direct request fails before any byte
\* was sent and 500 is answered, the record of that request is no longer in the
\* registry.
C24_FailedRequestLeavesNoRecord ==
    \A s \in Sessions :
        sess[s].phase = "failed" => sess[s].id \notin DOMAIN activeStreams

\* C25: when the upstream body fails mid-stream, after the headers were sent, the
\* cleanup fires (the record is removed) and the caller's connection is
\* terminated, not left open waiting for bytes.
C25_MidStreamFailureCleansUp ==
    \A s \in Sessions :
        sess[s].over = "upstreamError" /\ sess[s].listening
            => (sess[s].id \notin DOMAIN activeStreams /\ ~sess[s].open)

\* C27: in every negotiation result the transcode reasons are empty exactly when
\* directPlay is true, whatever upstream's TranscodingInfo is (absent, or present
\* with an empty TranscodeReasons).
C27_ReasonsIffNotDirect ==
    Negotiated => ((result.transcodeReasons = <<>>) <=> result.directPlay)

\* C30: in both middlewares a failed background re-authentication stays inside
\* the timer callback: no promise rejection is left unhandled, and the timer
\* stays installed.
C30_TimerFailureContained ==
    /\ ~unhandledRejection
    /\ (pc[TimerProc] # "off" => timerInstalled)

\* C21: once the caller of a proxied stream has closed its connection, the
\* upstream body stream of that session is not left open: it was destroyed (or
\* had already ended or failed), and no further chunk is read from it.
C21_UpstreamDestroyedOnAbort ==
    \A s \in Sessions :
        (sess[s].over = "disconnect" /\ ~sess[s].open) => sess[s].upstream # "open"

\* C26: session ids are unique in the process: a request that registers never
\* writes over a record that is in the registry, and the close of one
\* connection never removes the record another session registered.
C26_SessionIdsUnique ==
    [][\A s \in Sessions :
          /\ (sess[s].phase = "idle" /\ sess'[s].phase = "awaiting")
                 => sess'[s].id \notin DOMAIN activeStreams
          /\ (sess[s].open /\ ~sess'[s].open)
                 => \A t \in Sessions \ {s} :
                        sess[t].id \in DOMAIN activeStreams
                            => sess[t].id \in DOMAIN activeStreams']_vars

\* C22: the proxy's upstream GET carries the caller's Range header as sent (none
\* when the caller sent none) and has no timeout; the answer has upstream's
\* status, and Content-Length and Content-Range are in it exactly when upstream
\* sent them, with upstream's values.
C22_RangeAndStatusRelayed ==
    /\ proxy.pc # "idle" =>
           /\ proxy.upstreamGet.range = proxy.range
           /\ proxy.upstreamGet.timeout = NULL
    /\ proxy.pc = "piping" =>
           /\ proxy.answer.status = proxy.upstream.status
           /\ proxy.answer.contentLength = proxy.upstream.contentLength
           /\ proxy.answer.contentRange = proxy.upstream.contentRange

\* The handler that answers a fixed path of the items router.
OwnHandler(path) ==
    CASE path = "/recent" -> "recent"
      [] path = "/resume" -> "resume"
      [] path = "/nextup" -> "nextup"
      [] OTHER -> "details"

\* C23: GET /api/items/recent, /resume and /nextup are each answered by their
\* own handler, never by the item-details handler of /:itemId.
C23_FixedPathsOwnHandler ==
    routed.handler # "none" => routed.handler = OwnHandler(routed.path)

\* C28: a cache made with maxSize >= 1 never holds more than maxSize entries,
\* expired ones included, after any sequence of set, get, delete and clear.
C28_CacheBounded ==
    Len(itemCache.cache) <= itemCache.maxSize

\* C28 witness: a cache of max size above 1 is full and its first entry has
\* expired while a later one was written in the present clock unit.
C28_Witness ==
    /\ itemCache.maxSize > 1
    /\ Len(itemCache.cache) = itemCache.maxSize
    /\ Expired(itemCache, itemCache.cache[1].value, now)
    /\ itemCache.cache[Len(itemCache.cache)].value.timestamp = now

\* The keys a step removed from the cache.
Evicted == MapKeys(itemCache.cache) \ MapKeys(itemCache.cache')

\* C29: set evicts only when it inserts a new key into a full cache, and then
\* the entry with the oldest write timestamp; setting a key that is stored
\* never evicts another key.
C29_EvictsOldestOnNewKeyOnly ==
    [][\A key \in CacheKeys, data \in CacheData :
          CacheSet(key, data) =>
              /\ Evicted # {} =>
                     /\ key \notin MapKeys(itemCache.cache)
                     /\ Len(itemCache.cache) = itemCache.maxSize
                     /\ \A i, j \in 1..Len(itemCache.cache) :
                            itemCache.cache[i].key \in Evicted
                                => itemCache.cache[i].value.timestamp
                                       <= itemCache.cache[j].value.timestamp
              /\ key \in MapKeys(itemCache.cache) => Evicted = {}]_vars

====
